---- MODULE Spec2Model ----
(***************************************************************************)
(* Model of bmuschall/span: the batch pipeline of cmd/span-import          *)
(* (BatchedLDJProcessor, BatchedLDJWorker, ByteSliceCollector), the filter *)
(* set and ISILTagger, and the holdings helpers.                           *)
(***************************************************************************)
EXTENDS Integers, Sequences, FiniteSets, TLC

(***************************************************************************)
(* Bounds of the model.                                                    *)
(***************************************************************************)
MaxLines == 4
\* Longest input of the behaviours checked to their end (FairSpec).
LiveMaxLines == 2
MaxBatchSize == 2
MaxWorkers == 2
MaxBad == 1
\* Room of the bufio.Writer, in items (a record or a line terminator).
BufSize == 4
MaxFilters == 2
MaxLicenses == 2

(***************************************************************************)
(* Lines and records.  Input line k of the file is the number k (all lines *)
(* distinct); the empty string, which is what make([]string, n) fills a    *)
(* slice with, is EmptyLine.                                               *)
(***************************************************************************)
EmptyLine == 0
NL == [nl |-> 1]

VARIABLES
    options,        \* Options: BatchSize, NumWorkers, IgnoreErrors
    file,           \* the input: n lines, which of them fail to transform
    proc,           \* the process: "running", "exit0", "exit1"
    rpc,            \* position of BatchedLDJProcessor
    pos,            \* lines consumed from reader
    i,              \* the counter i of BatchedLDJProcessor
    batch,          \* the slice batch of BatchedLDJProcessor
    heap,           \* backing arrays of the []string slices
    batchesClosed,  \* close(batches) has happened
    docsClosed,     \* close(docs) has happened
    wg,             \* sync.WaitGroup counter
    worker,         \* each BatchedLDJWorker: pc, batch, idx (range index),
                    \* rec (the b it sends), snap (history: the contents of
                    \* batch at the moment of handoff)
    cpc,            \* position of ByteSliceCollector
    f,              \* the bufio.Writer f of the collector: buf, err
    stdout,         \* what has reached os.Stdout
    tg              \* state of the tagger specification

pipevars == <<options, file, proc, rpc, pos, i, batch, heap, batchesClosed,
              docsClosed, wg, worker, cpc, f, stdout>>
vars == <<pipevars, tg>>

Workers == 1..options.NumWorkers

(***************************************************************************)
(* Go slices: a header (array, len, cap) over a backing array in heap.     *)
(***************************************************************************)
MakeArray(n) == [k \in 1..n |-> EmptyLine]

SliceContents(h, s) == SubSeq(h[s.arr], 1, s.len)

\* append(s, x): writes in place while len < cap, else grows into a new
\* array of twice the capacity (runtime growslice for small slices).
AppendSlice(h, s, x) ==
    IF s.len < s.cap
    THEN [heap  |-> [h EXCEPT ![s.arr][s.len + 1] = x],
          slice |-> [s EXCEPT !.len = s.len + 1]]
    ELSE LET ncap == IF s.cap = 0 THEN 1 ELSE 2 * s.cap
             narr == [k \in 1..ncap |->
                        IF k <= s.len THEN h[s.arr][k]
                        ELSE IF k = s.len + 1 THEN x ELSE EmptyLine]
         IN [heap  |-> Append(h, narr),
             slice |-> [arr |-> Len(h) + 1, len |-> s.len + 1, cap |-> ncap]]

\* batch = batch[:0]
Reslice0(s) == [s EXCEPT !.len = 0]

(***************************************************************************)
(* doc.ToSolrSchema() and json.Marshal(schema) on a line.                  *)
(***************************************************************************)
TransformOk(line) ==
    IF line = EmptyLine THEN file.emptyOk ELSE line \notin file.bad

Record(line) == [doc |-> line]

\* The records of transforming every input line once, in order, sequentially.
RECURSIVE SequentialRecords(_)
SequentialRecords(k) ==
    IF k = 0 THEN <<>>
    ELSE IF TransformOk(k) THEN Append(SequentialRecords(k - 1), Record(k))
         ELSE SequentialRecords(k - 1)

(***************************************************************************)
(* bufio.Writer over os.Stdout.                                            *)
(***************************************************************************)
\* Flush: hands the buffer to os.Stdout; a failed write sets the sticky
\* error of the Writer.
BufFlush(w, out, ok) ==
    IF w.err \/ w.buf = <<>> THEN [w |-> w, out |-> out]
    ELSE IF ok THEN [w |-> [w EXCEPT !.buf = <<>>], out |-> out \o w.buf]
         ELSE [w |-> [w EXCEPT !.err = TRUE], out |-> out]

\* Write: accepts nothing once the Writer has an error; flushes first when
\* the buffer has no room for the item, then buffers it.
BufWrite(w, out, item, ok) ==
    IF w.err THEN [w |-> w, out |-> out]
    ELSE LET a == IF Len(w.buf) + 1 > BufSize THEN BufFlush(w, out, ok)
                  ELSE [w |-> w, out |-> out]
         IN IF a.w.err THEN a
            ELSE [w |-> [a.w EXCEPT !.buf = Append(a.w.buf, item)], out |-> a.out]

(***************************************************************************)
(* holdings: datum strings.  A string is a sequence of character codes.    *)
(***************************************************************************)
Char0 == 48
CharZ == 90
YearWidth == 4
VolumeWidth == 6
IssueWidth == 6

\* fmt.Sprintf("%d", n) for n >= 0
RECURSIVE Digits(_)
Digits(n) ==
    IF n < 10 THEN <<Char0 + n>> ELSE Append(Digits(n \div 10), Char0 + (n % 10))

\* The verb %ws, without the zero flag: spaces on the left up to width w.
PadLeft_Spaces(str, w) ==
    IF Len(str) >= w THEN str
    ELSE [k \in 1..w |-> IF k <= w - Len(str) THEN 32
                          ELSE str[k - (w - Len(str))]]

\* The verb %0ws of fmt.Sprintf: zeros on the left up to width w, no cut.
PadLeft0(str, w) ==
    IF Len(str) >= w THEN str
    ELSE [k \in 1..w |-> IF k <= w - Len(str) THEN Char0
                          ELSE str[k - (w - Len(str))]]

LowDatum == [k \in 1..16 |-> Char0]
HighDatum == [k \in 1..16 |-> CharZ]

\* CombineDatum joining the components as they are, without padding.
CombineDatum_Unpadded(year, volume, issue, empty) ==
    IF year = <<>> /\ volume = <<>> /\ issue = <<>> /\ empty # <<>>
    THEN empty
    ELSE year \o volume \o issue

CombineDatum(year, volume, issue, empty) ==
    IF year = <<>> /\ volume = <<>> /\ issue = <<>> /\ empty # <<>>
    THEN empty
    ELSE PadLeft0(year, YearWidth) \o PadLeft0(volume, VolumeWidth)
           \o PadLeft0(issue, IssueWidth)

\* a <= b for Go strings (bytewise)
RECURSIVE StrLeq(_, _)
StrLeq(a, b) ==
    IF a = <<>> THEN TRUE
    ELSE IF b = <<>> THEN FALSE
    ELSE IF a[1] # b[1] THEN a[1] < b[1]
    ELSE StrLeq(Tail(a), Tail(b))

(***************************************************************************)
(* Filters.  A license is a range of datums with a delay; Covers and Wall  *)
(* are the license's part of HoldingFilter.CoveredAndValid.                *)
(***************************************************************************)
Covers(license, signature) ==
    StrLeq(license.from, signature) /\ StrLeq(signature, license.to)

Wall(license, ref) == ref + license.delay

\* time.Time.After
After(t, u) == t > u

\* The range loop of CoveredAndValid over licenses, from index k.
RECURSIVE CoveredLoop(_, _, _, _)
CoveredLoop(licenses, ref, signature, k) ==
    IF k > Len(licenses) THEN FALSE
    ELSE IF ~Covers(licenses[k], signature)
         THEN CoveredLoop(licenses, ref, signature, k + 1)
    ELSE IF After(ref, Wall(licenses[k], ref)) THEN TRUE
    ELSE CoveredLoop(licenses, ref, signature, k + 1)

\* CoveredAndValid taking a missing entry for a license.
CoveredAndValid_DefaultPermit(hf, signature, issn) ==
    IF issn \notin DOMAIN hf.Table THEN TRUE
    ELSE CoveredLoop(hf.Table[issn], hf.Ref, signature, 1)

CoveredAndValid(hf, signature, issn) ==
    IF issn \notin DOMAIN hf.Table THEN FALSE
    ELSE CoveredLoop(hf.Table[issn], hf.Ref, signature, 1)

Signature(is) ==
    CombineDatum(Digits(is.Year), is.Volume, is.Issue, <<>>)

\* The range loop of HoldingFilter.Apply over append(is.ISSN, is.EISSN...),
\* from index k.
RECURSIVE HoldingLoop(_, _, _, _)
HoldingLoop(hf, signature, issns, k) ==
    IF k > Len(issns) THEN FALSE
    ELSE IF CoveredAndValid(hf, signature, issns[k]) THEN TRUE
    ELSE HoldingLoop(hf, signature, issns, k + 1)

HoldingFilterApply(hf, is) ==
    HoldingLoop(hf, Signature(is), is.ISSN \o is.EISSN, 1)

\* The range loop of ListFilter.Apply over append(is.ISSN, is.EISSN...),
\* from index k.
RECURSIVE ListLoop(_, _, _)
ListLoop(set, issns, k) ==
    IF k > Len(issns) THEN FALSE
    ELSE IF issns[k] \in set THEN TRUE
    ELSE ListLoop(set, issns, k + 1)

ListFilterApply(lf, is) == ListLoop(lf.Set, is.ISSN \o is.EISSN, 1)

SourceFilterApply(sf, is) == is.SourceID = sf.SourceID

AnyApply(af, is) == TRUE

\* Filter.Apply, by the dynamic type of the filter
Apply(flt, is) ==
    CASE flt.kind = "Any" -> AnyApply(flt, is)
      [] flt.kind = "SourceFilter" -> SourceFilterApply(flt, is)
      [] flt.kind = "ListFilter" -> ListFilterApply(flt, is)
      [] flt.kind = "HoldingFilter" -> HoldingFilterApply(flt, is)

(***************************************************************************)
(* ISILTagger.Tags.  container.StringSet is a set of strings: Add inserts, *)
(* Values lists the members, each once, in no particular order.            *)
(***************************************************************************)
NewStringSet == {}
StringSetAdd(set, x) == set \cup {x}
StringSetValues(set) ==
    {q \in [1..Cardinality(set) -> set] : \A a, b \in DOMAIN q : a # b => q[a] # q[b]}

\* The inner loop of Tags asking the first filter of isil only.
TagsFilters_FirstOnly(isils, isil, filters, k, is) ==
    IF k > Len(filters) THEN isils
    ELSE IF Apply(filters[k], is) THEN StringSetAdd(isils, isil) ELSE isils

\* The inner loop of Tags over the filters of isil, from index k.
RECURSIVE TagsFilters(_, _, _, _, _)
TagsFilters(isils, isil, filters, k, is) ==
    IF k > Len(filters) THEN isils
    ELSE TagsFilters(IF Apply(filters[k], is) THEN StringSetAdd(isils, isil)
                     ELSE isils,
                     isil, filters, k + 1, is)

\* The outer loop of Tags over the map t, todo being the keys not yet
\* visited (a Go map is ranged over in no particular order).
RECURSIVE TagsIsils(_, _, _, _)
TagsIsils(isils, t, todo, is) ==
    IF todo = {} THEN isils
    ELSE LET isil == CHOOSE x \in todo : TRUE
         IN TagsIsils(TagsFilters(isils, isil, t[isil], 1, is), t,
                      todo \ {isil}, is)

\* The slices Tags may return.
Tags(t, is) == StringSetValues(TagsIsils(NewStringSet, t, DOMAIN t, is))

(***************************************************************************)
(* Initial state: BatchedLDJProcessor up to line 70, the collector and the *)
(* workers started and waiting on their channels.                          *)
(***************************************************************************)
NoSlice == [arr |-> 0, len |-> 0, cap |-> 0]
NoRecord == [doc |-> -1]

\* A worker in `for batch := range batches`, holding no batch.
Idle == [pc |-> "recv", batch |-> NoSlice, idx |-> 0, rec |-> NoRecord,
         snap |-> <<>>]

PipeInit ==
    /\ options \in [BatchSize : 1..MaxBatchSize, NumWorkers : 1..MaxWorkers,
                    IgnoreErrors : BOOLEAN]
    /\ \E n \in 0..MaxLines :
         file \in [n : {n}, bad : {b \in SUBSET (1..n) : Cardinality(b) <= MaxBad},
                  emptyOk : BOOLEAN]
    /\ proc = "running"
    /\ rpc = "read"
    /\ pos = 0
    /\ i = 1
    /\ heap = <<MakeArray(options.BatchSize)>>
    /\ batch = [arr |-> 1, len |-> options.BatchSize, cap |-> options.BatchSize]
    /\ batchesClosed = FALSE
    /\ docsClosed = FALSE
    /\ wg = options.NumWorkers
    /\ worker = [w \in Workers |-> Idle]
    /\ cpc = "recv"
    /\ f = [buf |-> <<>>, err |-> FALSE]
    /\ stdout = <<>>

\* The pipeline specification does not use the tagger state.
Init == PipeInit /\ tg = [op |-> "none", done |-> FALSE]

(***************************************************************************)
(* BatchedLDJProcessor                                                     *)
(***************************************************************************)
\* line, err := reader.ReadString('\n') fails with an error other than EOF:
\* return err, and main calls log.Fatal.
ReadError ==
    /\ proc = "running" /\ rpc = "read"
    /\ rpc' = "failed"
    /\ UNCHANGED <<options, file, proc, pos, i, batch, heap, batchesClosed,
                   docsClosed, wg, worker, cpc, f, stdout, tg>>

\* err == io.EOF: break
ReadEOF ==
    /\ proc = "running" /\ rpc = "read"
    /\ pos = file.n
    /\ rpc' = "sendLast"
    /\ UNCHANGED <<options, file, proc, pos, i, batch, heap, batchesClosed,
                   docsClosed, wg, worker, cpc, f, stdout, tg>>

\* A line is read: batch = append(batch, line); if i == BatchSize the reader
\* goes on to send the batch, else i++.
ReadLine ==
    /\ proc = "running" /\ rpc = "read"
    /\ pos < file.n
    /\ LET a == AppendSlice(heap, batch, pos + 1)
       IN /\ heap' = a.heap
          /\ batch' = a.slice
    /\ pos' = pos + 1
    /\ IF i = options.BatchSize
       THEN rpc' = "send" /\ i' = i
       ELSE rpc' = "read" /\ i' = i + 1
    /\ UNCHANGED <<options, file, proc, batchesClosed, docsClosed, wg, worker,
                   cpc, f, stdout, tg>>

\* A worker receives slice s from batches and starts to range over it as it
\* was handed over; over an empty slice the loop body never runs.
Receive(s) ==
    IF s.len = 0 THEN Idle
    ELSE [pc |-> "line", batch |-> s, idx |-> 1, rec |-> NoRecord,
          snap |-> SliceContents(heap, s)]

\* batches <- batch is taken by worker w; batch = batch[:0]; i = 1; i++
SendBatch(w) ==
    /\ proc = "running" /\ rpc = "send"
    /\ worker[w].pc = "recv" /\ ~batchesClosed
    /\ worker' = [worker EXCEPT ![w] = Receive(batch)]
    /\ batch' = Reslice0(batch)
    /\ i' = 1 + 1
    /\ rpc' = "read"
    /\ UNCHANGED <<options, file, proc, pos, heap, batchesClosed, docsClosed,
                   wg, cpc, f, stdout, tg>>

\* After the loop: batches <- batch is taken by worker w.
SendLast(w) ==
    /\ proc = "running" /\ rpc = "sendLast"
    /\ worker[w].pc = "recv" /\ ~batchesClosed
    /\ worker' = [worker EXCEPT ![w] = Receive(batch)]
    /\ rpc' = "close"
    /\ UNCHANGED <<options, file, proc, pos, i, batch, heap, batchesClosed,
                   docsClosed, wg, cpc, f, stdout, tg>>

\* BatchedLDJProcessor without its close(batches).
CloseBatches_Forgotten ==
    /\ proc = "running" /\ rpc = "close"
    /\ rpc' = "wait"
    /\ UNCHANGED <<options, file, proc, pos, i, batch, heap, batchesClosed,
                   docsClosed, wg, worker, cpc, f, stdout, tg>>

\* close(batches)
CloseBatches ==
    /\ proc = "running" /\ rpc = "close"
    /\ batchesClosed' = TRUE
    /\ rpc' = "wait"
    /\ UNCHANGED <<options, file, proc, pos, i, batch, heap, docsClosed, wg,
                   worker, cpc, f, stdout, tg>>

\* BatchedLDJProcessor going on to close(docs) without waiting for the
\* workers.
Wait_NoBarrier ==
    /\ proc = "running" /\ rpc = "wait"
    /\ rpc' = "closeDocs"
    /\ UNCHANGED <<options, file, proc, pos, i, batch, heap, batchesClosed,
                   docsClosed, wg, worker, cpc, f, stdout, tg>>

\* wg.Wait()
Wait ==
    /\ proc = "running" /\ rpc = "wait"
    /\ wg = 0
    /\ rpc' = "closeDocs"
    /\ UNCHANGED <<options, file, proc, pos, i, batch, heap, batchesClosed,
                   docsClosed, wg, worker, cpc, f, stdout, tg>>

\* close(docs)
CloseDocs ==
    /\ proc = "running" /\ rpc = "closeDocs"
    /\ docsClosed' = TRUE
    /\ rpc' = "recvDone"
    /\ UNCHANGED <<options, file, proc, pos, i, batch, heap, batchesClosed,
                   wg, worker, cpc, f, stdout, tg>>

\* main after BatchedLDJProcessor: log.Fatal(err) on an error, else main
\* returns; either way the process ends with its goroutines.
Exit ==
    /\ proc = "running" /\ rpc \in {"returned", "failed"}
    /\ proc' = IF rpc = "returned" THEN "exit0" ELSE "exit1"
    /\ UNCHANGED <<options, file, rpc, pos, i, batch, heap, batchesClosed,
                   docsClosed, wg, worker, cpc, f, stdout, tg>>

(***************************************************************************)
(* BatchedLDJWorker                                                        *)
(***************************************************************************)
\* The range loop over batch moves on: next element, or back to the range
\* over batches after the last one.
Advance(wk) ==
    IF wk.idx = wk.batch.len THEN Idle
    ELSE [wk EXCEPT !.pc = "line", !.idx = wk.idx + 1, !.rec = NoRecord]

\* The worker skips the line: err != nil and options.IgnoreErrors.
Skips(line) == ~TransformOk(line) /\ options.IgnoreErrors

\* The element the range loop of worker wk reads next.
NextLine(wk) == heap[wk.batch.arr][wk.idx]

\* One iteration up to out <- b: the element is read from the backing array
\* now, transformed, and either skipped or serialized.
WorkerLine(w) ==
    /\ proc = "running" /\ worker[w].pc = "line"
    /\ LET wk == worker[w]
       IN worker' = [worker EXCEPT ![w] =
                       IF Skips(NextLine(wk)) THEN Advance(wk)
                       ELSE [wk EXCEPT !.pc = "send",
                                       !.rec = Record(NextLine(wk))]]
    /\ UNCHANGED <<options, file, proc, rpc, pos, i, batch, heap, batchesClosed,
                   docsClosed, wg, cpc, f, stdout, tg>>

\* The range over batches ends on the closed channel: defer wg.Done()
WorkerExit(w) ==
    /\ proc = "running" /\ worker[w].pc = "recv"
    /\ batchesClosed
    /\ worker' = [worker EXCEPT ![w].pc = "exited"]
    /\ wg' = wg - 1
    /\ UNCHANGED <<options, file, proc, rpc, pos, i, batch, heap, batchesClosed,
                   docsClosed, cpc, f, stdout, tg>>

(***************************************************************************)
(* ByteSliceCollector                                                      *)
(***************************************************************************)
\* out <- b of worker w is taken by the collector, which does f.Write(b)
\* and f.Write([]byte("\n")), ignoring what Write returns.
Emit(w) ==
    /\ proc = "running" /\ worker[w].pc = "send"
    /\ cpc = "recv" /\ ~docsClosed
    /\ \E ok \in BOOLEAN :
         LET a == BufWrite(f, stdout, worker[w].rec, ok)
             b == BufWrite(a.w, a.out, NL, ok)
         IN f' = b.w /\ stdout' = b.out
    /\ worker' = [worker EXCEPT ![w] = Advance(worker[w])]
    /\ UNCHANGED <<options, file, proc, rpc, pos, i, batch, heap, batchesClosed,
                   docsClosed, wg, cpc, tg>>

\* The range over docs ends on the closed channel.
CollectorDrained ==
    /\ proc = "running" /\ cpc = "recv"
    /\ docsClosed
    /\ cpc' = "signal"
    /\ UNCHANGED <<options, file, proc, rpc, pos, i, batch, heap, batchesClosed,
                   docsClosed, wg, worker, f, stdout, tg>>

\* done <- true meets <-done; BatchedLDJProcessor returns nil.
Signal ==
    /\ proc = "running" /\ cpc = "signal" /\ rpc = "recvDone"
    /\ cpc' = "flush"
    /\ rpc' = "returned"
    /\ UNCHANGED <<options, file, proc, pos, i, batch, heap, batchesClosed,
                   docsClosed, wg, worker, f, stdout, tg>>

\* defer f.Flush(), run when ByteSliceCollector returns.
Flush ==
    /\ proc = "running" /\ cpc = "flush"
    /\ \E ok \in BOOLEAN :
         LET a == BufFlush(f, stdout, ok)
         IN f' = a.w /\ stdout' = a.out
    /\ cpc' = "exited"
    /\ UNCHANGED <<options, file, proc, rpc, pos, i, batch, heap, batchesClosed,
                   docsClosed, wg, worker, tg>>

PipeNext ==
    \/ ReadError
    \/ ReadEOF
    \/ ReadLine
    \/ \E w \in Workers : SendBatch(w)
    \/ \E w \in Workers : SendLast(w)
    \/ CloseBatches
    \/ Wait
    \/ CloseDocs
    \/ Exit
    \/ \E w \in Workers : WorkerLine(w)
    \/ \E w \in Workers : WorkerExit(w)
    \/ \E w \in Workers : Emit(w)
    \/ CollectorDrained
    \/ Signal
    \/ Flush

Next == PipeNext

Spec == Init /\ [][Next]_vars

\* The pipeline on the inputs of at most LiveMaxLines lines, every goroutine
\* that can take a step being run by the Go scheduler.
LiveInit == Init /\ file.n <= LiveMaxLines

FairSpec == LiveInit /\ [][Next]_vars /\ WF_vars(Next)

(***************************************************************************)
(* Properties of the batch pipeline.                                       *)
(***************************************************************************)
\* What the collector has written: to os.Stdout or still in the buffer of f.
Written == stdout \o f.buf
Count(x, seq) == Cardinality({k \in DOMAIN seq : seq[k] = x})

\* BatchedLDJProcessor has returned nil and no write has failed.
Completed == rpc = "returned" /\ ~f.err

AllExited == \A w \in Workers : worker[w].pc = "exited"

\* C1: when BatchedLDJProcessor completes, the output records are those of
\* transforming every input line once: one record for every line that
\* transforms, none for another line, and none that is not from an input
\* line.
C1_OutputIsSequentialTransform ==
    Completed =>
        \A line \in 0..file.n :
            Count(Record(line), Written) = Count(Record(line), SequentialRecords(file.n))

\* C2: a line a worker reads from its batch is the line the batch held at
\* that index at the moment of handoff.
C2_BatchUnchangedAfterHandoff ==
    \A w \in Workers :
        worker[w].pc = "line" => NextLine(worker[w]) = worker[w].snap[worker[w].idx]

\* Done: batches closed, every worker exited, docs closed, the collector
\* has signalled and BatchedLDJProcessor has returned.
PipelineDone ==
    /\ rpc = "returned"
    /\ batchesClosed /\ docsClosed
    /\ AllExited /\ wg = 0
    /\ cpc \in {"flush", "exited"}

\* C3: unless reading the input fails, the pipeline eventually reaches Done
\* (FairSpec: every goroutine that can take a step is run).
C3_EventuallyDone == <>(PipelineDone \/ rpc = "failed")

C3_Witness ==
    PipelineDone /\ file.n >= 2 /\ options.NumWorkers >= 2 /\ Len(stdout) >= 4

\* C4: with zero input lines nothing is written.
C4_EmptyInputEmptyOutput == file.n = 0 => Written = <<>>

\* C5: with IgnoreErrors, at completion there is no record of a line that
\* fails to transform, and every later line that transforms has its record
\* in the output.
C5_ErrorSkippedOthersEmitted ==
    (options.IgnoreErrors /\ Completed) =>
        \A e \in file.bad :
            /\ Count(Record(e), Written) = 0
            /\ \A line \in (e + 1)..file.n :
                  TransformOk(line) => Count(Record(line), Written) >= 1

\* C6: without IgnoreErrors no record of a line that fails to transform is
\* sent to the collector, and the run does not return successfully once a
\* worker has met such a line.
C6_ErrorIsFatal ==
    ~options.IgnoreErrors =>
        \A e \in file.bad :
            /\ Count(Record(e), Written) = 0
            /\ \A w \in Workers : worker[w].rec # Record(e)

\* C7: when the collector has signalled completion, nothing it was sent is
\* still in its buffer: every record is on os.Stdout, followed by one line
\* terminator.
C7_WrittenAtCompletion ==
    (cpc = "flush" /\ ~f.err) =>
        /\ f.buf = <<>>
        /\ \A k \in DOMAIN stdout :
              (k % 2 = 1) <=> (stdout[k] # NL)

\* C8: once a write to the output has failed, no worker serializes a further
\* record and BatchedLDJProcessor does not return successfully.
C8_WriteFailureAborts ==
    [][f.err =>
         /\ \A w \in Workers : worker'[w].pc = "send" => worker[w].pc = "send"
         /\ rpc' = "returned" => rpc = "returned"]_vars

\* C17: a batch handed off before the end of the input holds exactly
\* BatchSize input lines and nothing else, the first batch as every later
\* one, and the batch channel is closed right after the final handoff, not
\* before.
C17_BatchesFull ==
    /\ rpc = "send" =>
          /\ batch.len = options.BatchSize
          /\ \A k \in 1..batch.len :
                SliceContents(heap, batch)[k] \in 1..file.n
    /\ rpc \in {"read", "send", "sendLast", "close"} => ~batchesClosed
    /\ rpc \in {"wait", "closeDocs", "recvDone", "returned"} => batchesClosed

\* C18: docs is closed only after batches is closed and every worker has
\* exited, no worker is sending or about to send on docs once it is closed,
\* a channel is not closed yet when the reader comes to close it, and the
\* collector signals only after it has seen docs closed and drained.
C18_ShutdownOrder ==
    /\ docsClosed => (batchesClosed /\ AllExited /\ wg = 0)
    /\ rpc = "close" => ~batchesClosed
    /\ rpc = "closeDocs" => (~docsClosed /\ batchesClosed)
    /\ rpc \in {"recvDone", "returned"} => (batchesClosed /\ docsClosed)
    /\ cpc \in {"signal", "flush", "exited"} => (docsClosed /\ AllExited)
    /\ rpc = "returned" => cpc \in {"flush", "exited"}

\* The shutdown has gone through with two workers that both exited and
\* records written.
C18_Witness ==
    /\ rpc = "returned" /\ cpc = "exited"
    /\ docsClosed /\ batchesClosed
    /\ options.NumWorkers = 2 /\ AllExited
    /\ file.n >= 2 /\ Len(stdout) >= 2

\* C19: with one worker the records are written in the order of the input
\* lines they come from, within a batch and across batches (a record of the
\* empty string comes from no input line).
C19_SingleWorkerOrder ==
    options.NumWorkers = 1 =>
        \A a, b \in DOMAIN Written :
            (/\ a < b
             /\ Written[a] # NL /\ Written[b] # NL
             /\ Written[a].doc >= 1 /\ Written[b].doc >= 1)
                => Written[a].doc <= Written[b].doc

(***************************************************************************)
(* The filter set and the tagger: the inputs are drawn by TagInit, one     *)
(* call of Tags, HoldingFilter.Apply or CoveredAndValid is made on them.   *)
(***************************************************************************)
IssnA == "1234-5678"
IssnB == "2222-3333"
Isils == {"ISIL-1", "ISIL-2"}
\* Reference time and delays, in days.
RefTimes == {19000, 20000}

LicensePool ==
    LET from == CombineDatum(Digits(2000), Digits(1), Digits(1), LowDatum)
        to == CombineDatum(Digits(2020), Digits(50), Digits(12), HighDatum)
    IN {[from |-> from, to |-> to, delay |-> 0],
        [from |-> from, to |-> to, delay |-> -360],
        [from |-> LowDatum, to |-> HighDatum, delay |-> -30]}

SeqsUpTo(S, lo, hi) == UNION {[1..n -> S] : n \in lo..hi}

\* Licenses as Licenses.Add builds them: no ISSN with an empty list.
LicenseTables ==
    UNION {[D -> SeqsUpTo(LicensePool, 1, MaxLicenses)] : D \in SUBSET {IssnA, IssnB}}

HoldingFilters ==
    [kind : {"HoldingFilter"}, Ref : RefTimes, Table : LicenseTables]

FilterPool ==
    {[kind |-> "Any"],
     [kind |-> "SourceFilter", SourceID |-> "49"],
     [kind |-> "ListFilter", Set |-> {IssnA}],
     [kind |-> "HoldingFilter", Ref |-> 20000,
      Table |-> (IssnA :> <<[from |-> LowDatum, to |-> HighDatum, delay |-> -30]>>)]}

Taggers ==
    UNION {[D -> SeqsUpTo(FilterPool, 0, MaxFilters)] : D \in SUBSET Isils}

\* NewHoldingFilter: the table parsed from the holdings file and the time of
\* the construction as the reference time.
NewHoldingFilter(licenses, now) ==
    [kind |-> "HoldingFilter", Ref |-> now, Table |-> licenses]

\* The entitlement from (2000, 1, 1) to (2020, 50, 12) whose delay strings are
\* empty: Entitlement.Delay gives the zero duration.
ScenarioLicense ==
    [from |-> CombineDatum(Digits(2000), Digits(1), Digits(1), LowDatum),
     to |-> CombineDatum(Digits(2020), Digits(50), Digits(12), HighDatum),
     delay |-> 0]

\* ISIL-1 with the holdings filter of a file listing IssnA under
\* ScenarioLicense, built at any of the reference times.
ScenarioTaggers ==
    {("ISIL-1" :> <<NewHoldingFilter((IssnA :> <<ScenarioLicense>>), now)>>) :
        now \in RefTimes}

Records ==
    [SourceID : {"49", "50"}, ISSN : {<<>>, <<IssnA>>, <<IssnB>>},
     EISSN : {<<>>, <<IssnA>>}, Year : {2010, 2021},
     Volume : {Digits(10)}, Issue : {Digits(5)}]

Signatures == {Signature(is) : is \in Records}

\* The pipeline is not running under the tagger specification.
PipeParked ==
    /\ options = [BatchSize |-> 1, NumWorkers |-> 1, IgnoreErrors |-> FALSE]
    /\ file = [n |-> 0, bad |-> {}, emptyOk |-> FALSE]
    /\ proc = "exit0"
    /\ rpc = "read"
    /\ pos = 0
    /\ i = 1
    /\ heap = <<MakeArray(1)>>
    /\ batch = [arr |-> 1, len |-> 1, cap |-> 1]
    /\ batchesClosed = FALSE
    /\ docsClosed = FALSE
    /\ wg = 0
    /\ worker = [w \in 1..1 |-> Idle]
    /\ cpc = "recv"
    /\ f = [buf |-> <<>>, err |-> FALSE]
    /\ stdout = <<>>

TagInit ==
    /\ PipeParked
    /\ \/ tg \in [op : {"Tags"}, done : {FALSE}, t : Taggers, is : Records]
       \/ tg \in [op : {"Tags"}, done : {FALSE}, t : ScenarioTaggers, is : Records]
       \/ tg \in [op : {"Apply"}, done : {FALSE}, hf : HoldingFilters, is : Records]
       \/ tg \in [op : {"CoveredAndValid"}, done : {FALSE}, hf : HoldingFilters,
                   signature : Signatures, issn : {IssnA, IssnB}]

\* ISILTagger.Tags(is)
CallTags ==
    /\ tg.op = "Tags" /\ ~tg.done
    /\ \E r \in Tags(tg.t, tg.is) :
         tg' = [op |-> "Tags", done |-> TRUE, t |-> tg.t, is |-> tg.is, out |-> r]
    /\ UNCHANGED pipevars

\* HoldingFilter.Apply(is)
CallApply ==
    /\ tg.op = "Apply" /\ ~tg.done
    /\ tg' = [op |-> "Apply", done |-> TRUE, hf |-> tg.hf, is |-> tg.is,
              out |-> HoldingFilterApply(tg.hf, tg.is)]
    /\ UNCHANGED pipevars

\* HoldingFilter.CoveredAndValid(signature, issn)
CallCoveredAndValid ==
    /\ tg.op = "CoveredAndValid" /\ ~tg.done
    /\ tg' = [op |-> "CoveredAndValid", done |-> TRUE, hf |-> tg.hf,
              signature |-> tg.signature, issn |-> tg.issn,
              out |-> CoveredAndValid(tg.hf, tg.signature, tg.issn)]
    /\ UNCHANGED pipevars

TagNext ==
    \/ CallTags
    \/ CallApply
    \/ CallCoveredAndValid

TagSpec == TagInit /\ [][TagNext]_vars

(***************************************************************************)
(* Properties of the filter set and the tagger.                            *)
(***************************************************************************)
InSeq(x, seq) == \E k \in DOMAIN seq : seq[k] = x

\* Some filter configured for isil accepts the record.
Accepted(t, isil, is) ==
    isil \in DOMAIN t /\ \E k \in DOMAIN t[isil] : Apply(t[isil][k], is)

\* C9: Tags returns the institutions that have a filter accepting the
\* record, each once: an institution is in the result iff one of its filters
\* returns true.
C9_TagsExact ==
    (tg.op = "Tags" /\ tg.done) =>
        /\ \A isil \in Isils : InSeq(isil, tg.out) <=> Accepted(tg.t, isil, tg.is)
        /\ \A a, b \in DOMAIN tg.out : a # b => tg.out[a] # tg.out[b]
        /\ \A a \in DOMAIN tg.out : tg.out[a] \in Isils

\* Tags has run on a tagger with an institution without filters and one
\* accepted by its second filter only.
C9_Witness ==
    /\ tg.op = "Tags" /\ tg.done
    /\ tg.out = <<"ISIL-2">>
    /\ DOMAIN tg.t = Isils
    /\ tg.t["ISIL-1"] = <<>>
    /\ Len(tg.t["ISIL-2"]) = 2
    /\ ~Apply(tg.t["ISIL-2"][1], tg.is)

\* No ISSN or e-ISSN of the record has an entry in the table of hf.
NoEntry(hf, is) ==
    \A k \in DOMAIN (is.ISSN \o is.EISSN) : (is.ISSN \o is.EISSN)[k] \notin DOMAIN hf.Table

\* C10: CoveredAndValid is false for an ISSN without an entry in the table,
\* and HoldingFilter.Apply is false for a record none of whose ISSNs and
\* e-ISSNs has one.
C10_FailClosed ==
    /\ (tg.op = "CoveredAndValid" /\ tg.done /\ tg.issn \notin DOMAIN tg.hf.Table)
          => tg.out = FALSE
    /\ (tg.op = "Apply" /\ tg.done /\ NoEntry(tg.hf, tg.is)) => tg.out = FALSE

\* Apply has run on a record with ISSNs, none of them in a table that has a
\* license open to every datum for another ISSN.
C10_Witness ==
    /\ tg.op = "Apply" /\ tg.done
    /\ tg.is.ISSN # <<>> /\ NoEntry(tg.hf, tg.is)
    /\ \E issn \in DOMAIN tg.hf.Table :
          \E k \in DOMAIN tg.hf.Table[issn] :
              /\ Covers(tg.hf.Table[issn][k], Signature(tg.is))
              /\ After(tg.hf.Ref, Wall(tg.hf.Table[issn][k], tg.hf.Ref))

\* C11: with ISIL-1 holding ISSN 1234-5678 from (2000, 1, 1) to (2020, 50, 12)
\* without delay, the reference time being that of the construction of the
\* filter, the record of 2010, volume 10, issue 5 with that ISSN is tagged
\* with ISIL-1 and the record of 2021 is not.
C11_Scenario ==
    (tg.op = "Tags" /\ tg.done /\ tg.t \in ScenarioTaggers
        /\ tg.is.ISSN = <<IssnA>>
        /\ tg.is.Volume = Digits(10) /\ tg.is.Issue = Digits(5)) =>
        /\ tg.is.Year = 2010 => InSeq("ISIL-1", tg.out)
        /\ tg.is.Year = 2021 => ~InSeq("ISIL-1", tg.out)

(***************************************************************************)
(* holdings: delays.  An int and a time.Duration are 64-bit two's          *)
(* complement integers: sequences of Int64Bytes bytes, the lowest first.   *)
(* WideBytes bytes hold every product of two of them without wrapping.     *)
(***************************************************************************)
Int64Bytes == 8
WideBytes == 16
CharMinus == 45
CharM == 77
CharY == 89

MaxDelayLen == 5

\* The w lowest bytes of n, for 0 <= n < 2^31.
Bytes(n, w) ==
    [k \in 1..w |-> IF k > 4 THEN 0 ELSE (n \div (256 ^ (k - 1))) % 256]

\* The bytes of the columns cols from column k with carry c coming in; what is
\* carried out of the last column is dropped (arithmetic modulo 256^Len(cols)).
RECURSIVE Carry(_, _, _)
Carry(cols, k, c) ==
    IF k > Len(cols) THEN <<>>
    ELSE <<(cols[k] + c) % 256>> \o Carry(cols, k + 1, (cols[k] + c) \div 256)

\* a[1]*b[k] + a[2]*b[k-1] + ... + a[j]*b[k+1-j]
RECURSIVE ColSum(_, _, _, _)
ColSum(a, b, k, j) ==
    IF j = 0 THEN 0 ELSE a[j] * b[k + 1 - j] + ColSum(a, b, k, j - 1)

\* a * b modulo 256^w, for a and b of w bytes
MulBytes(a, b, w) == Carry([k \in 1..w |-> ColSum(a, b, k, k)], 1, 0)

\* -a modulo 256^Len(a)
NegBytes(a) == Carry([k \in 1..Len(a) |-> 255 - a[k]], 1, 1)

\* The conversion of a 64-bit integer to WideBytes bytes, keeping its value.
Widen(a) ==
    [k \in 1..WideBytes |-> IF k <= Int64Bytes THEN a[k]
                            ELSE IF a[Int64Bytes] >= 128 THEN 255 ELSE 0]

Zero64 == Bytes(0, Int64Bytes)

\* time.Hour: 3600 * 10^9 nanoseconds
Hour == MulBytes(Bytes(3600, Int64Bytes), Bytes(1000000000, Int64Bytes), Int64Bytes)
day == MulBytes(Bytes(24, Int64Bytes), Hour, Int64Bytes)
month == MulBytes(Bytes(30, Int64Bytes), day, Int64Bytes)
year == MulBytes(Bytes(12, Int64Bytes), month, Int64Bytes)

IsDigit(c) == c >= Char0 /\ c <= Char0 + 9

\* delayPattern.FindStringSubmatch(s): the match and its two groups, or the
\* empty slice.
FindStringSubmatch(s) ==
    IF /\ Len(s) >= 3
       /\ s[1] = CharMinus
       /\ \A k \in 2..(Len(s) - 1) : IsDigit(s[k])
       /\ s[Len(s)] \in {CharM, CharY}
    THEN <<s, SubSeq(s, 1, Len(s) - 1), <<s[Len(s)]>>>>
    ELSE <<>>

\* The digits of a decimal numeral as an unsigned number of WideBytes bytes.
RECURSIVE AtoiMagnitude(_, _)
AtoiMagnitude(digits, acc) ==
    IF digits = <<>> THEN acc
    ELSE AtoiMagnitude(Tail(digits),
             Carry([k \in 1..WideBytes |->
                       acc[k] * 10 + (IF k = 1 THEN digits[1] - Char0 ELSE 0)],
                   1, 0))

\* strconv.Atoi of a minus sign followed by digits: the value, or a range
\* error when it is below -2^63.
Atoi(s) ==
    LET mag == AtoiMagnitude(Tail(s), Bytes(0, WideBytes))
        low == SubSeq(mag, 1, Int64Bytes)
        inRange == /\ \A k \in (Int64Bytes + 1)..WideBytes : mag[k] = 0
                   /\ \/ mag[Int64Bytes] < 128
                      \/ low = [k \in 1..Int64Bytes |->
                                    IF k = Int64Bytes THEN 128 ELSE 0]
    IN IF inRange THEN [value |-> NegBytes(low), err |-> "nil"]
       ELSE [value |-> [k \in 1..Int64Bytes |-> IF k = Int64Bytes THEN 128 ELSE 0],
             err |-> "ErrRange"]

ParseDelay(s) ==
    LET ms == FindStringSubmatch(s)
    IN IF Len(ms) # 3 THEN [d |-> Zero64, err |-> "errUnknownFormat"]
       ELSE LET a == Atoi(ms[2])
            IN IF a.err # "nil" THEN [d |-> Zero64, err |-> a.err]
               ELSE IF ms[3] = <<CharY>>
                    THEN [d |-> MulBytes(a.value, year, Int64Bytes), err |-> "nil"]
               ELSE IF ms[3] = <<CharM>>
                    THEN [d |-> MulBytes(a.value, month, Int64Bytes), err |-> "nil"]
               ELSE [d |-> Zero64, err |-> "errUnknownUnit"]

\* Entitlement.Delay without the comparison of the two delay strings.
Delay_NoMismatch(e) ==
    IF e.FromDelay # <<>> THEN ParseDelay(e.FromDelay)
    ELSE IF e.ToDelay # <<>> THEN ParseDelay(e.ToDelay)
    ELSE [d |-> Zero64, err |-> "nil"]

\* Entitlement.Delay
Delay(e) ==
    IF e.FromDelay # <<>> /\ e.ToDelay # <<>> /\ e.FromDelay # e.ToDelay
    THEN [d |-> Zero64, err |-> "errDelayMismatch"]
    ELSE IF e.FromDelay # <<>> THEN ParseDelay(e.FromDelay)
    ELSE IF e.ToDelay # <<>> THEN ParseDelay(e.ToDelay)
    ELSE [d |-> Zero64, err |-> "nil"]

\* The delay strings drawn: - 1 2 7 9 M Y, up to MaxDelayLen characters.
DelayChars == {CharMinus, Char0 + 1, Char0 + 2, Char0 + 7, Char0 + 9, CharM, CharY}
DelayStrings == SeqsUpTo(DelayChars, 0, MaxDelayLen)

\* The delay strings of the entitlements drawn: "", -1M, -12M, -2Y, -297Y,
\* 2Y, -2
DelayPool ==
    {<<>>, <<CharMinus, Char0 + 1, CharM>>,
     <<CharMinus, Char0 + 1, Char0 + 2, CharM>>,
     <<CharMinus, Char0 + 2, CharY>>,
     <<CharMinus, Char0 + 2, Char0 + 9, Char0 + 7, CharY>>,
     <<Char0 + 2, CharY>>, <<CharMinus, Char0 + 2>>}
Entitlements == [FromDelay : DelayPool, ToDelay : DelayPool]

DelayInit ==
    /\ PipeParked
    /\ \/ tg \in [op : {"ParseDelay"}, done : {FALSE}, s : DelayStrings]
       \/ tg \in [op : {"Delay"}, done : {FALSE}, e : Entitlements]

\* ParseDelay(s)
CallParseDelay ==
    /\ tg.op = "ParseDelay" /\ ~tg.done
    /\ tg' = [op |-> "ParseDelay", done |-> TRUE, s |-> tg.s, out |-> ParseDelay(tg.s)]
    /\ UNCHANGED pipevars

\* e.Delay()
CallDelay ==
    /\ tg.op = "Delay" /\ ~tg.done
    /\ tg' = [op |-> "Delay", done |-> TRUE, e |-> tg.e, out |-> Delay(tg.e)]
    /\ UNCHANGED pipevars

DelayNext ==
    \/ CallParseDelay
    \/ CallDelay

DelaySpec == DelayInit /\ [][DelayNext]_vars

(***************************************************************************)
(* Properties of the delays.                                               *)
(***************************************************************************)
\* The number a sequence of digits writes.
RECURSIVE NatOf(_)
NatOf(digits) ==
    IF digits = <<>> THEN 0
    ELSE 10 * NatOf(SubSeq(digits, 1, Len(digits) - 1))
           + (digits[Len(digits)] - Char0)

\* The string is a minus sign, one digit or more, and M or Y.
MatchesDelay(s) ==
    /\ Len(s) >= 3
    /\ s[1] = CharMinus
    /\ \A k \in 2..(Len(s) - 1) : IsDigit(s[k])
    /\ s[Len(s)] \in {CharM, CharY}

\* Minus n days in nanoseconds, computed without wrapping.
MinusDays(n) == NegBytes(MulBytes(Bytes(n, WideBytes), Widen(day), WideBytes))

\* The duration the string stands for: the integer times 30 or 360 days.
DelayOf(s) ==
    MinusDays(NatOf(SubSeq(s, 2, Len(s) - 1))
                * (IF s[Len(s)] = CharM THEN 30 ELSE 360))

\* C12: ParseDelay returns, without error, the integer times 30 days (M) or
\* 360 days (Y) for every string matching -<int>(M|Y), the duration being a
\* signed 64-bit count of nanoseconds, and fails with errUnknownFormat for
\* every other string.
C12_ParseDelay ==
    (tg.op = "ParseDelay" /\ tg.done) =>
        IF MatchesDelay(tg.s)
        THEN tg.out.err = "nil" /\ Widen(tg.out.d) = DelayOf(tg.s)
        ELSE tg.out.err = "errUnknownFormat"

ParseDelayFitting ==
    (tg.op = "ParseDelay" /\ tg.done /\ MatchesDelay(tg.s)
        /\ NatOf(SubSeq(tg.s, 2, Len(tg.s) - 1)) <= 296) =>
        tg.out.err = "nil" /\ Widen(tg.out.d) = DelayOf(tg.s)

(***************************************************************************)
(* holdings: CombineDatum on pairs of (year, volume, issue), the components *)
(* being decimal numerals of at most 4, 6 and 6 digits.                     *)
(***************************************************************************)
DatumYears == {<<>>, Digits(9), Digits(10), Digits(2000), Digits(9999)}
DatumVolumes == {<<>>, Digits(2), Digits(10), Digits(999999)}
DatumIssues == {<<>>, Digits(5), <<Char0, Char0 + 5>>, Digits(12)}
Datums == [year : DatumYears, volume : DatumVolumes, issue : DatumIssues]

\* The numerals of one repeated digit (0, 5 or 9) with up to w digits, the
\* empty one included.
DigitRuns(w) == {[k \in 1..n |-> Char0 + d] : n \in 0..w, d \in {0, 5, 9}}

\* Triples of every length up to the widths of the datum.
DatumTriples ==
    [year : DigitRuns(YearWidth), volume : DigitRuns(VolumeWidth),
     issue : DigitRuns(IssueWidth)]

DatumInit ==
    /\ PipeParked
    /\ \/ tg \in [op : {"CombineDatum"}, done : {FALSE}, a : Datums, b : Datums]
       \/ tg \in [op : {"Datum"}, done : {FALSE}, a : DatumTriples]

\* CombineDatum(year, volume, issue, "") on both triples
CallCombineDatum ==
    /\ tg.op = "CombineDatum" /\ ~tg.done
    /\ tg' = [op |-> "CombineDatum", done |-> TRUE, a |-> tg.a, b |-> tg.b,
              out |-> <<CombineDatum(tg.a.year, tg.a.volume, tg.a.issue, <<>>),
                        CombineDatum(tg.b.year, tg.b.volume, tg.b.issue, <<>>)>>]
    /\ UNCHANGED pipevars

\* signature := CombineDatum(year, volume, issue, "") on one triple
CallDatum ==
    /\ tg.op = "Datum" /\ ~tg.done
    /\ tg' = [op |-> "Datum", done |-> TRUE, a |-> tg.a,
              out |-> CombineDatum(tg.a.year, tg.a.volume, tg.a.issue, <<>>)]
    /\ UNCHANGED pipevars

DatumNext ==
    \/ CallCombineDatum
    \/ CallDatum

DatumSpec == DatumInit /\ [][DatumNext]_vars

\* (year, volume, issue) of a is at most that of b, as numbers, year first.
TupleLeq(a, b) ==
    \/ NatOf(a.year) < NatOf(b.year)
    \/ /\ NatOf(a.year) = NatOf(b.year)
       /\ \/ NatOf(a.volume) < NatOf(b.volume)
          \/ /\ NatOf(a.volume) = NatOf(b.volume)
             /\ NatOf(a.issue) <= NatOf(b.issue)

\* C14: CombineDatum(y, v, i, "") preserves the order: the strings of two
\* triples of numerals of at most 4, 6 and 6 digits compare bytewise as the
\* triples compare by year, then volume, then issue.
C14_OrderPreserving ==
    (tg.op = "CombineDatum" /\ tg.done) =>
        /\ StrLeq(tg.out[1], tg.out[2]) <=> TupleLeq(tg.a, tg.b)
        /\ StrLeq(tg.out[2], tg.out[1]) <=> TupleLeq(tg.b, tg.a)

\* CombineDatum has run on two triples whose years compare as strings the
\* other way round than as numbers, and on components left empty.
C14_Witness ==
    /\ tg.op = "CombineDatum" /\ tg.done
    /\ tg.a.year = Digits(9) /\ tg.b.year = Digits(10)
    /\ tg.a.volume = Digits(999999) /\ tg.b.volume = <<>>
    /\ ~StrLeq(tg.a.year, tg.b.year)
    /\ StrLeq(tg.out[1], tg.out[2]) /\ ~StrLeq(tg.out[2], tg.out[1])

\* C21: for numerals of at most 4, 6 and 6 digits, empty ones included,
\* CombineDatum(y, v, i, "") has exactly 16 characters and lies between
\* LowDatum and HighDatum, so a license from LowDatum to HighDatum covers it.
C21_DatumWithinSentinels ==
    (tg.op = "Datum" /\ tg.done) =>
        /\ Len(tg.out) = 16
        /\ StrLeq(LowDatum, tg.out) /\ StrLeq(tg.out, HighDatum)
        /\ Covers([from |-> LowDatum, to |-> HighDatum, delay |-> 0], tg.out)

\* CombineDatum has run on an empty year, a volume of full width and an
\* issue of one digit.
C21_Witness ==
    /\ tg.op = "Datum" /\ tg.done
    /\ tg.a.year = <<>>
    /\ Len(tg.a.volume) = VolumeWidth /\ tg.a.volume[1] = Char0 + 9
    /\ Len(tg.a.issue) = 1
    /\ tg.out # LowDatum

\* The datum of the empty triple is LowDatum itself.
EmptyTripleIsLowDatum ==
    (tg.op = "Datum" /\ tg.done
        /\ tg.a.year = <<>> /\ tg.a.volume = <<>> /\ tg.a.issue = <<>>) =>
        tg.out = LowDatum

(***************************************************************************)
(* NewListFilter and ListFilter.Apply.  The source is a sequence of        *)
(* characters; an ISSN of a record is a string of the same characters.     *)
(***************************************************************************)
CharNL == 10
CharSpace == 32

MaxSourceLen == 5

\* unicode.IsSpace on ASCII: tab, newline, vertical tab, form feed, carriage
\* return, space
IsSpace(c) == c \in {9, 10, 11, 12, 13, CharSpace}

RECURSIVE TrimLeft(_)
TrimLeft(s) ==
    IF s # <<>> /\ IsSpace(s[1]) THEN TrimLeft(Tail(s)) ELSE s

RECURSIVE TrimRight(_)
TrimRight(s) ==
    IF s # <<>> /\ IsSpace(s[Len(s)]) THEN TrimRight(SubSeq(s, 1, Len(s) - 1))
    ELSE s

\* strings.TrimSpace
TrimSpace(s) == TrimRight(TrimLeft(s))

\* bufio.Reader.ReadString('\n') with pos characters of src read already: the
\* characters up to and including the next newline, or the rest of the source
\* together with io.EOF.
ReadString(src, p) ==
    LET nls == {k \in (p + 1)..Len(src) : src[k] = CharNL}
    IN IF nls = {}
       THEN [line |-> SubSeq(src, p + 1, Len(src)), err |-> "EOF", pos |-> Len(src)]
       ELSE LET k == CHOOSE n \in nls : \A m \in nls : n <= m
            IN [line |-> SubSeq(src, p + 1, k), err |-> "nil", pos |-> k]

\* The loop of NewListFilter, p characters read and set built so far.
RECURSIVE NewListFilterLoop(_, _, _)
NewListFilterLoop(src, p, set) ==
    LET r == ReadString(src, p)
    IN IF r.err = "EOF" THEN set
       ELSE IF TrimSpace(r.line) = <<>> THEN NewListFilterLoop(src, r.pos, set)
       ELSE NewListFilterLoop(src, r.pos, StringSetAdd(set, TrimSpace(r.line)))

NewListFilter(src) ==
    [kind |-> "ListFilter", Set |-> NewListFilterLoop(src, 0, NewStringSet)]

\* The sources drawn: 1, 2, space and newline, up to MaxSourceLen characters.
ListSources ==
    SeqsUpTo({Char0 + 1, Char0 + 2, CharSpace, CharNL}, 0, MaxSourceLen)

\* The ISSNs of the records drawn: "1", "2", "12", "1 2"
ListIssns ==
    {<<Char0 + 1>>, <<Char0 + 2>>, <<Char0 + 1, Char0 + 2>>,
     <<Char0 + 1, CharSpace, Char0 + 2>>}
ListRecords ==
    [ISSN : {<<>>} \cup {<<s>> : s \in ListIssns},
     EISSN : {<<>>, <<<<Char0 + 2>>>>}]

ListInit ==
    /\ PipeParked
    /\ tg \in [op : {"NewListFilter"}, done : {FALSE}, src : ListSources,
               is : ListRecords]

\* f, err := NewListFilter(r)
CallNewListFilter ==
    /\ tg.op = "NewListFilter"
    /\ tg' = [op |-> "ListApply", done |-> FALSE, src |-> tg.src, is |-> tg.is,
              f |-> NewListFilter(tg.src)]
    /\ UNCHANGED pipevars

\* f.Apply(is)
CallListApply ==
    /\ tg.op = "ListApply" /\ ~tg.done
    /\ tg' = [tg EXCEPT !.done = TRUE] @@ [out |-> ListFilterApply(tg.f, tg.is)]
    /\ UNCHANGED pipevars

ListNext ==
    \/ CallNewListFilter
    \/ CallListApply

ListSpec == ListInit /\ [][ListNext]_vars

\* The positions around the lines of src: before the first character, every
\* newline, after the last character.
Breaks(src) == {0, Len(src) + 1} \cup {k \in 1..Len(src) : src[k] = CharNL}

\* The lines of src, without their newlines; the last one need not end in a
\* newline.
LinesOf(src) ==
    {SubSeq(src, p[1] + 1, p[2] - 1) :
        p \in {q \in Breaks(src) \X Breaks(src) :
                 /\ q[1] < q[2]
                 /\ \A k \in Breaks(src) : ~(q[1] < k /\ k < q[2])}}

\* The trimmed non-blank lines of src.
NonBlankLines(src) == {TrimSpace(l) : l \in LinesOf(src)} \ {<<>>}

\* C15: the set NewListFilter builds holds exactly the trimmed content of
\* every non-blank line of the source, so Apply is true iff an ISSN or e-ISSN
\* of the record equals a non-blank line.
C15_ListFilter ==
    (tg.op = "ListApply") =>
        /\ tg.f.Set = NonBlankLines(tg.src)
        /\ tg.done =>
             (tg.out <=> \E k \in DOMAIN (tg.is.ISSN \o tg.is.EISSN) :
                            (tg.is.ISSN \o tg.is.EISSN)[k] \in NonBlankLines(tg.src))

\* The set is right for every source whose last line ends in a newline.
ListFilterTerminated ==
    (tg.op = "ListApply" /\ (tg.src = <<>> \/ tg.src[Len(tg.src)] = CharNL)) =>
        tg.f.Set = NonBlankLines(tg.src)

(***************************************************************************)
(* holdings: HoldingsMap.  The document is the sequence of its holding     *)
(* elements as DecodeElement fills them; the ISSNs are strings of          *)
(* characters as they stand in the document.                               *)
(***************************************************************************)
MaxHoldings == 2

\* ISSNPattern.MatchString: ^\d\d\d\d-\d\d\d\d$
ISSNPatternMatch(s) ==
    /\ Len(s) = 9
    /\ \A k \in {1, 2, 3, 4, 6, 7, 8, 9} : IsDigit(s[k])
    /\ s[5] = CharMinus

\* h[key] = v keeping an entry that is there already.
MapPut_KeepFirst(h, key, v) ==
    [x \in DOMAIN h \cup {key} |-> IF x \in DOMAIN h THEN h[x] ELSE v]

\* h[key] = v
MapPut(h, key, v) ==
    [x \in DOMAIN h \cup {key} |-> IF x = key THEN v ELSE h[x]]

\* One of the two range loops of HoldingsMap over the ISSNs ids of item,
\* from index k.
RECURSIVE RegisterIssns(_, _, _, _)
RegisterIssns(h, item, ids, k) ==
    IF k > Len(ids) THEN h
    ELSE LET tid == TrimSpace(ids[k])
         IN RegisterIssns(IF ISSNPatternMatch(tid) THEN MapPut(h, tid, item) ELSE h,
                          item, ids, k + 1)

\* The token loop of HoldingsMap over the holding elements, from index k.
RECURSIVE HoldingsLoop(_, _, _)
HoldingsLoop(h, doc, k) ==
    IF k > Len(doc) THEN h
    ELSE HoldingsLoop(RegisterIssns(RegisterIssns(h, doc[k], doc[k].EISSN, 1),
                                    doc[k], doc[k].PISSN, 1),
                      doc, k + 1)

HoldingsMap(doc) == HoldingsLoop(<<>>, doc, 1)

\* 1234-5678 and 2222-3333
IssnChars(a, b, c, d, e, f2, g, h) ==
    <<Char0 + a, Char0 + b, Char0 + c, Char0 + d, CharMinus,
      Char0 + e, Char0 + f2, Char0 + g, Char0 + h>>
IssnAChars == IssnChars(1, 2, 3, 4, 5, 6, 7, 8)
IssnBChars == IssnChars(2, 2, 2, 2, 3, 3, 3, 3)

\* The ISSNs as written in the documents drawn: well-formed, well-formed
\* within white space, and malformed (a digit short, no hyphen).
RawIssns ==
    {IssnAChars, <<CharSpace>> \o IssnAChars \o <<CharNL>>, IssnBChars,
     SubSeq(IssnAChars, 1, 8), SubSeq(IssnAChars, 1, 4) \o SubSeq(IssnAChars, 6, 9)}

HoldingBodies ==
    [EISSN : SeqsUpTo(RawIssns, 0, 1), PISSN : SeqsUpTo(RawIssns, 0, 1)]

\* The documents drawn: up to MaxHoldings holdings, EZBID being the place of
\* the holding in the document.
HoldingDocs ==
    {[k \in DOMAIN d |-> [EZBID |-> k, EISSN |-> d[k].EISSN, PISSN |-> d[k].PISSN]] :
        d \in SeqsUpTo(HoldingBodies, 0, MaxHoldings)}

HoldingsInit ==
    /\ PipeParked
    /\ tg \in [op : {"HoldingsMap"}, done : {FALSE}, doc : HoldingDocs]

\* HoldingsMap(reader)
CallHoldingsMap ==
    /\ tg.op = "HoldingsMap" /\ ~tg.done
    /\ tg' = [op |-> "HoldingsMap", done |-> TRUE, doc |-> tg.doc,
              out |-> HoldingsMap(tg.doc)]
    /\ UNCHANGED pipevars

HoldingsNext == CallHoldingsMap

HoldingsSpec == HoldingsInit /\ [][HoldingsNext]_vars

\* The holding lists key, white space around it aside, as e-ISSN or print
\* ISSN.
Lists(item, key) ==
    \/ \E k \in DOMAIN item.EISSN : TrimSpace(item.EISSN[k]) = key
    \/ \E k \in DOMAIN item.PISSN : TrimSpace(item.PISSN[k]) = key

\* Four digits, a hyphen, four digits.
Canonical(s) ==
    /\ Len(s) = 9
    /\ s[5] = CharMinus
    /\ \A k \in (1..9) \ {5} : s[k] \in Char0..(Char0 + 9)

\* C16: every key of the map HoldingsMap returns is a trimmed ISSN of the
\* form DDDD-DDDD (a malformed ISSN adds no key), and it maps to the last
\* holding of the document that lists it as e-ISSN or print ISSN.
C16_HoldingsMap ==
    (tg.op = "HoldingsMap" /\ tg.done) =>
        \A key \in DOMAIN tg.out :
            /\ Canonical(key) /\ TrimSpace(key) = key
            /\ \E k \in DOMAIN tg.doc :
                  /\ Lists(tg.doc[k], key)
                  /\ \A m \in DOMAIN tg.doc : Lists(tg.doc[m], key) => m <= k
                  /\ tg.out[key] = tg.doc[k]

\* HoldingsMap has run on a document whose two holdings list the same ISSN,
\* one of them within white space, the first one with a malformed ISSN too.
C16_Witness ==
    /\ tg.op = "HoldingsMap" /\ tg.done
    /\ Len(tg.doc) = 2
    /\ tg.doc[1].EISSN = <<IssnAChars>>
    /\ tg.doc[1].PISSN = <<SubSeq(IssnAChars, 1, 8)>>
    /\ tg.doc[2].PISSN = <<<<CharSpace>> \o IssnAChars \o <<CharNL>>>>
    /\ DOMAIN tg.out = {IssnAChars}
    /\ tg.out[IssnAChars].EZBID = 2

(***************************************************************************)
(* holdings: Licenses.Add, called again and again on one table that starts *)
(* empty.  tg.calls is the sequence of the calls made, tg.prev the table   *)
(* before the last call.                                                   *)
(***************************************************************************)
MaxAdds == 4

\* Licenses.Add appending without looking for the license in the list.
LicensesAdd_Always(t, issn, license) ==
    MapPut(t, issn, Append(IF issn \in DOMAIN t THEN t[issn] ELSE <<>>, license))

\* t.Add(issn, license); t[issn] of a missing key is the nil slice.
LicensesAdd(t, issn, license) ==
    LET list == IF issn \in DOMAIN t THEN t[issn] ELSE <<>>
    IN IF \E k \in DOMAIN list : list[k] = license THEN t
       ELSE MapPut(t, issn, Append(list, license))

LicensesInit ==
    /\ PipeParked
    /\ tg = [op |-> "Add", done |-> FALSE, t |-> <<>>, prev |-> <<>>, calls |-> <<>>]

CallAdd ==
    /\ tg.op = "Add" /\ Len(tg.calls) < MaxAdds
    /\ \E issn \in {IssnA, IssnB}, license \in LicensePool :
         tg' = [op |-> "Add", done |-> Len(tg.calls) + 1 = MaxAdds,
                t |-> LicensesAdd(tg.t, issn, license), prev |-> tg.t,
                calls |-> Append(tg.calls, [issn |-> issn, license |-> license])]
    /\ UNCHANGED pipevars

LicensesNext == CallAdd

LicensesSpec == LicensesInit /\ [][LicensesNext]_vars

\* The licenses of the calls for issn, in the order of the calls.
RECURSIVE AddedFor(_, _)
AddedFor(calls, issn) ==
    IF calls = <<>> THEN <<>>
    ELSE (IF calls[1].issn = issn THEN <<calls[1].license>> ELSE <<>>)
           \o AddedFor(Tail(calls), issn)

\* seq without the elements that occur earlier in it.
FirstOccurrences(seq) ==
    LET firsts == {k \in DOMAIN seq : \A m \in 1..(k - 1) : seq[m] # seq[k]}
        nth(n) == CHOOSE k \in firsts : Cardinality({m \in firsts : m < k}) = n - 1
    IN [n \in 1..Cardinality(firsts) |-> seq[nth(n)]]

\* C20: after any sequence of Add calls no list holds a license twice, the
\* list of an ISSN is the distinct licenses added for it in the order of
\* their first insertion, and an Add of a license that is in the list of its
\* ISSN already leaves the table as it was.
C20_LicensesAdd ==
    tg.op = "Add" =>
        /\ DOMAIN tg.t = {tg.calls[k].issn : k \in DOMAIN tg.calls}
        /\ \A issn \in DOMAIN tg.t :
              /\ \A a, b \in DOMAIN tg.t[issn] :
                    a # b => tg.t[issn][a] # tg.t[issn][b]
              /\ tg.t[issn] = FirstOccurrences(AddedFor(tg.calls, issn))
        /\ tg.calls # <<>> =>
              LET last == tg.calls[Len(tg.calls)]
              IN (/\ last.issn \in DOMAIN tg.prev
                  /\ \E k \in DOMAIN tg.prev[last.issn] :
                        tg.prev[last.issn][k] = last.license)
                    => tg.t = tg.prev

\* A license has been added again for an ISSN that had two licenses, after
\* an Add of the same license for the other ISSN.
C20_Witness ==
    /\ tg.op = "Add" /\ Len(tg.calls) = 4
    /\ tg.calls[1].issn = IssnA /\ tg.calls[2].issn = IssnA
    /\ tg.calls[3].issn = IssnB /\ tg.calls[4].issn = IssnA
    /\ tg.calls[1].license # tg.calls[2].license
    /\ tg.calls[3].license = tg.calls[1].license
    /\ tg.calls[4].license = tg.calls[1].license
    /\ tg.t = tg.prev
    /\ tg.t[IssnA] = <<tg.calls[1].license, tg.calls[2].license>>

====
